---- MODULE Spec2Model ----
(***************************************************************************)
(* Model of mis_builder/models/mis_report_instance.py: the report-instance *)
(* computation engine of MIS Builder (period date resolution, the          *)
(* configuration validators, and the multi-phase matrix build).            *)
(*                                                                         *)
(* Specifications:                                                         *)
(*   Spec        compute() / _compute_matrix on an accepted configuration  *)
(*   SpecConfig  create / write of a Period under the @api.constrains      *)
(*   SpecSums    create / write / unlink of sum entries under constraints  *)
(*   SpecDates   the computed fields date_from / date_to / valid           *)
(*   SpecDrill   compute() followed by drilldown() on one of its cells     *)
(*   SpecParams  compute() on an instance with parameter values            *)
(*   SpecSwitch  writes of comparison_mode and of the instance's dates     *)
(*   SpecEdits   one create / write / unlink on an accepted configuration  *)
(***************************************************************************)
EXTENDS Integers, Sequences, FiniteSets

VARIABLES
    periods,      \* mis.report.instance.period table: id -> record
    sums,         \* mis.report.instance.period.sum table: set of records
    pc,           \* position of compute() / _compute_matrix
    todo,         \* the periods the for-loop of _compute_matrix has yet to visit
    calls,        \* calls made on the report template / KPI matrix, in order
    kpi_matrix,   \* state of the KPI matrix (Matrix Accumulator)
    raised,       \* the exception that left the running operation, or NoError
    result,       \* what compute() returned, or NoResult
    lastOp,       \* the last create/write/unlink attempted on the tables
    checks,       \* outcome of each constraint method run by lastOp
    report,       \* the mis.report.instance record read by _compute_dates
    record,       \* the period record whose dates _compute_dates resolves
    today,        \* fields.Date.context_today
    date_ranges,  \* date.range table (of the period's type and company)
    instances,    \* mis.report.instance table: id -> record
    params,       \* param_value_ids of the computed instance, in order
    drill,        \* the drilldown() call made, with what it returned
    aep           \* calls drilldown() made on its Expression Processor

vars == <<periods, sums, pc, todo, calls, kpi_matrix, raised, result,
          lastOp, checks, report, record, today, date_ranges,
          instances, params, drill, aep>>

computeVars == <<pc, todo, calls, kpi_matrix, raised, result>>
editVars == <<lastOp, checks>>
dateVars == <<report, record, today, date_ranges>>
instanceVars == <<instances, params, drill, aep>>

----------------------------------------------------------------------------
(* Bounds of the model *)

MaxPeriods == 2
MaxSums == 2
MaxSumRows == 1
MaxOffset == 2
MaxDuration == 2
MaxParams == 2

PeriodIds == 1..MaxPeriods
\* Two report instances: the one computed / edited, and another one.
InstanceIds == {"instance_a", "instance_b"}

----------------------------------------------------------------------------
(* Module constants, lines 16-23 *)

SRC_ACTUALS == "actuals"
SRC_ACTUALS_ALT == "actuals_alt"
SRC_CMPCOL == "cmpcol"
SRC_SUMCOL == "sumcol"

MODE_NONE == "none"
MODE_FIX == "fix"
MODE_REL == "relative"

Sources == {SRC_ACTUALS, SRC_ACTUALS_ALT, SRC_SUMCOL, SRC_CMPCOL}
Modes == {MODE_FIX, MODE_REL, MODE_NONE}
Signs == {"+", "-"}

----------------------------------------------------------------------------
(* Values of the framework *)

\* A Date field holds False or a 'YYYY-MM-DD' string, modelled <<y, m, d>>.
NoDate == <<>>
\* A Many2one field holds a recordset of at most one record: a set of ids.
NoRecord == {}
NoError == [kind |-> "none", msg |-> "", column |-> 0]
NoResult == [returned |-> FALSE, cols |-> <<>>]

\* Python truthiness of a Date field value and of a recordset.
DateSet(v) == v # NoDate
RecordSet(rs) == rs # NoRecord

\* What Python's == sees: a recordset of a model, or an integer.
PyRecordset(model, ids) == [py |-> "recordset", model |-> model, ids |-> ids, val |-> 0]
PyInt(n) == [py |-> "int", model |-> "", ids |-> {}, val |-> n]

\* BaseModel.__eq__: a recordset equals only a recordset of the same model with
\* the same ids; compared with anything that is no recordset it is unequal.
BaseModelEq(self, other) ==
    /\ other.py = "recordset"
    /\ self.model = other.model
    /\ self.ids = other.ids

ValidationError(msg, id) == [kind |-> "ValidationError", msg |-> msg, column |-> id]
UserError(msg, id) == [kind |-> "UserError", msg |-> msg, column |-> id]

\* Python's AttributeError, raised on reading an attribute an object lacks
AttributeError(name) ==
    [kind |-> "AttributeError", msg |-> "module has no attribute", column |-> name]

\* Python's NameError, raised on reading a name that is bound nowhere
NameError(name) ==
    [kind |-> "NameError", msg |-> "name is not defined", column |-> name]

\* record.id of a recordset of at most one record (False, here 0, when empty).
IdOf(rs) == IF rs = NoRecord THEN 0 ELSE CHOOSE i \in rs : TRUE

\* rs.report_instance_id read through a Many2one into the period table.
ReportInstanceOf(rs, table) ==
    PyRecordset("mis.report.instance",
                {table[i].report_instance_id : i \in rs \cap DOMAIN table})

----------------------------------------------------------------------------
(* Configuration validators (@api.constrains) *)

\* MisReportInstancePeriodSum._check_period_to_sum, lines 49-54
_check_period_to_sum_with_id(e) ==
    IF BaseModelEq(PyRecordset("mis.report.instance.period", {e.period_id}),
                   PyInt(e.period_to_sum_id))
    THEN ValidationError("You cannot sum period with itself", e.period_id)
    ELSE NoError

_check_period_to_sum(e) ==
    IF BaseModelEq(PyRecordset("mis.report.instance.period", {e.period_id}),
                   PyRecordset("mis.report.instance.period", {e.period_to_sum_id}))
    THEN ValidationError("You cannot sum period with itself", e.period_id)
    ELSE NoError

\* MisReportInstancePeriod._check_mode_source, lines 275-286
_check_mode_source(id, table) ==
    LET self == table[id] IN
    IF self.source \in {SRC_ACTUALS, SRC_ACTUALS_ALT}
    THEN IF self.mode = MODE_NONE
         THEN ValidationError("A date filter is mandatory for this source", id)
         ELSE NoError
    ELSE IF self.source \in {SRC_SUMCOL, SRC_CMPCOL}
         THEN IF self.mode # MODE_NONE
              THEN ValidationError("No date filter is allowed for this source", id)
              ELSE NoError
         ELSE NoError

\* The test of lines 296-297: each reference (a recordset) is compared with
\* self.id (an integer).
ComparedToItself(id, self) ==
    \/ BaseModelEq(PyRecordset("mis.report.instance.period", self.source_cmpcol_from_id),
                   PyInt(id))
    \/ BaseModelEq(PyRecordset("mis.report.instance.period", self.source_cmpcol_to_id),
                   PyInt(id))

\* The test of lines 301-304.
OtherReportFromOnly(self, table) ==
    LET mine == PyRecordset("mis.report.instance", {self.report_instance_id}) IN
    ~BaseModelEq(ReportInstanceOf(self.source_cmpcol_from_id, table), mine)

OtherReport(self, table) ==
    LET mine == PyRecordset("mis.report.instance", {self.report_instance_id}) IN
    \/ ~BaseModelEq(ReportInstanceOf(self.source_cmpcol_from_id, table), mine)
    \/ ~BaseModelEq(ReportInstanceOf(self.source_cmpcol_to_id, table), mine)

\* MisReportInstancePeriod._check_source_cmpcol, lines 288-307
_check_source_cmpcol(id, table) ==
    LET self == table[id] IN
    IF self.source = SRC_CMPCOL
    THEN IF ~RecordSet(self.source_cmpcol_from_id) \/ ~RecordSet(self.source_cmpcol_to_id)
         THEN ValidationError("Please provide both columns to compare", id)
         ELSE IF ComparedToItself(id, self)
              THEN ValidationError("Column cannot be compared to itself", id)
              ELSE IF OtherReport(self, table)
                   THEN ValidationError("Columns to compare must belong to the same report", id)
                   ELSE NoError
    ELSE NoError

----------------------------------------------------------------------------
(* KPI matrix (kpimatrix.py, the Matrix Accumulator): an append-only       *)
(* registry keyed by column; values of a raw column exist once it is       *)
(* declared, those of a comparison once compute_comparisons() has run,     *)
(* those of a sum once compute_sums() has run.                             *)

prepare_kpi_matrix ==
    [cols |-> <<>>, computed |-> {}, comparison_todo |-> {}, sum_todo |-> {},
     unready |-> {}]

Range(seq) == {seq[i] : i \in DOMAIN seq}

declare_and_compute_period(m, col) ==
    [m EXCEPT !.cols = Append(@, col), !.computed = @ \cup {col}]

declare_sum(m, col, terms) ==
    [m EXCEPT !.cols = Append(@, col),
              !.sum_todo = @ \cup {[col |-> col, refs |-> {t[2] : t \in terms}]}]

declare_comparison(m, col, to_id, from_id) ==
    [m EXCEPT !.cols = Append(@, col),
              !.comparison_todo = @ \cup {[col |-> col, refs |-> {to_id, from_id}]}]

\* A finishing pass over `batch`: every column of the batch gets its values; a
\* column of the batch is unready when a declared column it references has no
\* values yet and gets none in this pass.
FinishingPass(m, batch) ==
    LET now == {t.col : t \in batch} IN
    [m EXCEPT !.computed = @ \cup now,
              !.unready = @ \cup {t.col : t \in
                  {u \in batch : \E r \in u.refs :
                        r \in Range(m.cols) /\ r \notin m.computed \cup now}}]

compute_comparisons(m) == FinishingPass(m, m.comparison_todo)
compute_sums(m) == FinishingPass(m, m.sum_todo)
as_dict(m) == [returned |-> TRUE, cols |-> m.cols]

----------------------------------------------------------------------------
(* MisReportInstance.compute / _compute_matrix *)

\* The instance compute() runs on.
Self == "instance_a"

\* _order = 'sequence, id' (line 218)
Before(a, b, table) ==
    \/ table[a].sequence < table[b].sequence
    \/ table[a].sequence = table[b].sequence /\ a < b

\* self.period_ids: the periods of the instance, in the model's order.
period_ids_by_id(inst, table) ==
    LET S == {i \in DOMAIN table : table[i].report_instance_id = inst} IN
    CHOOSE s \in [1..Cardinality(S) -> S] :
        \A i, j \in DOMAIN s : i < j => s[i] < s[j]

period_ids(inst, table) ==
    LET S == {i \in DOMAIN table : table[i].report_instance_id = inst} IN
    CHOOSE s \in [1..Cardinality(S) -> S] :
        \A i, j \in DOMAIN s : i < j => Before(s[i], s[j], table)

\* period.source_sumcol_ids as the list comprehension of lines 664-665 reads it
sumcol_terms(id, table) ==
    {<<e.sign, e.period_to_sum_id>> : e \in {x \in table : x.period_id = id}}

\* The test of lines 623 and 642.
MissingDatesFromOnly(p) == ~DateSet(p.date_from)

MissingDates(p) == ~DateSet(p.date_from) \/ ~DateSet(p.date_to)

Call(op, col, args) == [op |-> op, col |-> col, args |-> args]

\* Python's None and False, as the values of arguments and of unset fields
None == "None"
False == "False"

\* ir.model records: the `model` field of a recordset, False when it is empty
ModelName(rs) == IF rs = NoRecord THEN False ELSE CHOOSE n \in rs : TRUE

\* the model declare_and_compute_period reads when no aml_model is passed
DefaultAmlModel == "account.move.line"

\* period._get_additional_move_line_filter(), lines 247-259: [] here, and
\* whatever an inheriting module returns for the period
_get_additional_move_line_filter(p) == p.additional_move_line_filter

\* what selects the move lines of a column: the arguments handed to
\* declare_and_compute_period (lines 627-638 and 646-658)
Selection(date_from, date_to, target_move, aml_filter, aml_model) ==
    [date_from |-> date_from, date_to |-> date_to, target_move |-> target_move,
     aml_filter |-> aml_filter, aml_model |-> aml_model]

\* MisReportInstanceParamValue._value, lines 362-383: the value, or the
\* exception raised. In the last branch the message is formatted from
\* `pv.type`, and _value binds no name `pv`.
Returned(v) == [kind |-> "none", msg |-> "", column |-> 0, value |-> v]

_value(pv) ==
    IF pv.type = "str" THEN Returned(pv.val_str)
    ELSE IF pv.type = "num" THEN Returned(pv.val_num)
    ELSE IF pv.type = "ref"
        THEN IF pv.refs = <<>>
             THEN UserError("Parameter error. Can't find any records", pv.name)
             ELSE Returned(Head(pv.refs))
    ELSE NameError("pv")

\* the first param value, in order, whose _value() raises
FirstFailing(pvs) ==
    LET failing == {i \in DOMAIN pvs : _value(pvs[i]).kind # "none"}
    IN IF failing = {} THEN 0
       ELSE CHOOSE i \in failing : \A j \in failing : i <= j

\* compute(), line 768: self._param_vals() (lines 697-702) evaluates every
\* param value of the instance before _compute_matrix is entered
ParamVals ==
    /\ pc = "param_vals"
    /\ IF FirstFailing(params) # 0
       THEN /\ raised' = [k \in {"kind", "msg", "column"} |->
                             _value(params[FirstFailing(params)])[k]]
            /\ pc' = "raised"
       ELSE /\ pc' = "prepare"
            /\ UNCHANGED raised
    /\ UNCHANGED <<periods, sums, todo, calls, kpi_matrix, result, editVars,
                   dateVars, instanceVars>>

\* lines 731-734: a fresh KPI matrix, and the loop over self.period_ids begins
Prepare ==
    /\ pc = "prepare"
    /\ kpi_matrix' = prepare_kpi_matrix
    /\ todo' = period_ids(Self, periods)
    /\ pc' = "loop"
    /\ UNCHANGED <<periods, sums, calls, raised, result, editVars, dateVars, instanceVars>>

\* The loop body reaches the period `id` (lines 734-760).
AtPeriod(id) == pc = "loop" /\ todo # <<>> /\ id = Head(todo)

\* An exception leaves _compute_matrix and compute(): nothing is returned.
Raise(err) ==
    /\ raised' = err
    /\ pc' = "raised"
    /\ UNCHANGED <<periods, sums, todo, calls, kpi_matrix, result, editVars, dateVars, instanceVars>>

Declared(call, m) ==
    /\ calls' = Append(calls, call)
    /\ kpi_matrix' = m
    /\ todo' = Tail(todo)
    /\ UNCHANGED <<periods, sums, pc, raised, result, editVars, dateVars, instanceVars>>

\* _add_column -> _add_column_actuals, lines 621-638
AddColumnActuals ==
    \E id \in DOMAIN periods :
        /\ AtPeriod(id)
        /\ periods[id].source = SRC_ACTUALS
        /\ IF MissingDates(periods[id])
           THEN Raise(UserError("Column with actuals source must have from/to dates", id))
           ELSE Declared(Call("declare_and_compute_period", id,
                              Selection(periods[id].date_from, periods[id].date_to,
                                        instances[Self].target_move,
                                        _get_additional_move_line_filter(periods[id]),
                                        DefaultAmlModel)),
                         declare_and_compute_period(kpi_matrix, id))

\* _add_column -> _add_column_actuals_alt, lines 640-658
AddColumnActualsAlt ==
    \E id \in DOMAIN periods :
        /\ AtPeriod(id)
        /\ periods[id].source = SRC_ACTUALS_ALT
        /\ IF MissingDates(periods[id])
           THEN Raise(UserError("Column with actuals source must have from/to dates", id))
           ELSE Declared(Call("declare_and_compute_period", id,
                              Selection(periods[id].date_from, periods[id].date_to,
                                        None,
                                        _get_additional_move_line_filter(periods[id]),
                                        ModelName(periods[id].source_aml_model_id))),
                         declare_and_compute_period(kpi_matrix, id))

\* _add_column -> _add_column_sumcol, lines 660-666
AddColumnSumcol ==
    \E id \in DOMAIN periods :
        /\ AtPeriod(id)
        /\ periods[id].source = SRC_SUMCOL
        /\ Declared(Call("declare_sum", id, sumcol_terms(id, sums)),
                    declare_sum(kpi_matrix, id, sumcol_terms(id, sums)))

\* _add_column -> _add_column_cmpcol, lines 668-673
AddColumnCmpcol ==
    \E id \in DOMAIN periods :
        /\ AtPeriod(id)
        /\ periods[id].source = SRC_CMPCOL
        /\ LET to_id == IdOf(periods[id].source_cmpcol_to_id)
               from_id == IdOf(periods[id].source_cmpcol_from_id)
           IN Declared(Call("declare_comparison", id, <<to_id, from_id>>),
                       declare_comparison(kpi_matrix, id, to_id, from_id))

\* line 761
ComputeComparisons ==
    /\ pc = "loop" /\ todo = <<>>
    /\ calls' = Append(calls, Call("compute_comparisons", 0, <<>>))
    /\ kpi_matrix' = compute_comparisons(kpi_matrix)
    /\ pc' = "sums"
    /\ UNCHANGED <<periods, sums, todo, raised, result, editVars, dateVars, instanceVars>>

\* line 762
ComputeSums ==
    /\ pc = "sums"
    /\ calls' = Append(calls, Call("compute_sums", 0, <<>>))
    /\ kpi_matrix' = compute_sums(kpi_matrix)
    /\ pc' = "return"
    /\ UNCHANGED <<periods, sums, todo, raised, result, editVars, dateVars, instanceVars>>

\* lines 763 and 770: the matrix is returned and serialised
Return ==
    /\ pc = "return"
    /\ result' = as_dict(kpi_matrix)
    /\ pc' = "done"
    /\ UNCHANGED <<periods, sums, todo, calls, kpi_matrix, raised, editVars, dateVars, instanceVars>>

----------------------------------------------------------------------------
(* Configurations compute() is run on *)

\* sequence: the default of line 161, and a smaller one that moves a column up
SequenceValues == {50, 100}

\* The field defaults of lines 133-216.
DefaultPeriod(inst) ==
    [report_instance_id |-> inst, sequence |-> 100, source |-> SRC_ACTUALS,
     mode |-> MODE_FIX, date_from |-> NoDate, date_to |-> NoDate,
     source_cmpcol_from_id |-> NoRecord, source_cmpcol_to_id |-> NoRecord,
     source_aml_model_id |-> NoRecord, additional_move_line_filter |-> <<>>]

References == {NoRecord} \cup {{i} : i \in PeriodIds}

\* Columns of the computed instance: raw columns with their resolved dates
\* (each present or not), comparisons with any pair of references, sums.
OwnColumns ==
    {[DefaultPeriod(Self) EXCEPT !.sequence = q, !.source = s,
                                 !.date_from = f, !.date_to = t] :
        q \in SequenceValues, s \in {SRC_ACTUALS, SRC_ACTUALS_ALT},
        f \in {NoDate, <<2024, 1, 1>>}, t \in {NoDate, <<2024, 1, 31>>}}
    \cup
    {[DefaultPeriod(Self) EXCEPT !.sequence = q, !.source = SRC_CMPCOL,
                                 !.mode = MODE_NONE,
                                 !.source_cmpcol_from_id = f,
                                 !.source_cmpcol_to_id = t] :
        q \in SequenceValues, f \in References, t \in References}
    \cup
    {[DefaultPeriod(Self) EXCEPT !.sequence = q, !.source = SRC_SUMCOL,
                                 !.mode = MODE_NONE] : q \in SequenceValues}

\* A period of another instance matters here only as something to refer to.
OtherColumns == {DefaultPeriod(i) : i \in InstanceIds \ {Self}}

SumEntries(table) ==
    [period_id : {i \in DOMAIN table : /\ table[i].report_instance_id = Self
                                       /\ table[i].source = SRC_SUMCOL},
     period_to_sum_id : DOMAIN table,
     sign : Signs]

\* The entries `b` as rows of the sum table, ids in the order of creation
\* (here: by column, summed column and sign).
EntryBefore(x, e) ==
    \/ x.period_id < e.period_id
    \/ x.period_id = e.period_id /\ x.period_to_sum_id < e.period_to_sum_id
    \/ /\ x.period_id = e.period_id /\ x.period_to_sum_id = e.period_to_sum_id
       /\ x.sign = "+" /\ e.sign = "-"

SumRows(b) ==
    {[id |-> 1 + Cardinality({x \in b : EntryBefore(x, e)}),
      period_id |-> e.period_id, period_to_sum_id |-> e.period_to_sum_id,
      sign |-> e.sign] : e \in b}

\* Every constraint method accepts the record it is declared on.
Accepted(table, sumtable) ==
    /\ \A id \in DOMAIN table :
          /\ _check_mode_source(id, table) = NoError
          /\ _check_source_cmpcol(id, table) = NoError
    /\ \A e \in sumtable : _check_period_to_sum(e) = NoError

NoOp == [op |-> "none", id |-> 0, keys |-> {}]
NoChecks == <<>>
EditIdle == lastOp = NoOp /\ checks = NoChecks
ComputeIdle ==
    /\ pc = "idle" /\ todo = <<>> /\ calls = <<>>
    /\ kpi_matrix = prepare_kpi_matrix /\ result = NoResult
DatesIdle == report = <<>> /\ record = <<>> /\ today = NoDate /\ date_ranges = {}

\* target_move: 'posted' unless set otherwise (lines 463-467)
TargetMoves == {"posted", "all"}
DefaultInstance == [target_move |-> "posted"]

NoArg == <<>>
NoDescriptor == [name |-> <<>>, domain |-> <<>>, res_model |-> "none"]
NoDrill == [called |-> FALSE, self |-> "none", arg |-> NoArg,
            returns |-> "nothing", descriptor |-> NoDescriptor]

InstanceIdle ==
    /\ instances = [i \in InstanceIds |-> DefaultInstance]
    /\ params = <<>>
    /\ drill = NoDrill
    /\ aep = <<>>

Init ==
    /\ periods \in [PeriodIds -> OwnColumns \cup OtherColumns]
    /\ sums \in {SumRows(b) : b \in {s \in SUBSET SumEntries(periods) :
                                            Cardinality(s) <= MaxSums}}
    /\ Accepted(periods, sums)
    /\ pc = "param_vals"
    /\ todo = <<>>
    /\ calls = <<>>
    /\ kpi_matrix = prepare_kpi_matrix
    /\ raised = NoError
    /\ result = NoResult
    /\ EditIdle
    /\ DatesIdle
    /\ InstanceIdle

Next ==
    \/ ParamVals
    \/ Prepare
    \/ AddColumnActuals
    \/ AddColumnActualsAlt
    \/ AddColumnSumcol
    \/ AddColumnCmpcol
    \/ ComputeComparisons
    \/ ComputeSums
    \/ Return

Spec == Init /\ [][Next]_vars

----------------------------------------------------------------------------
(* Claims about compute() *)

DeclareOps == {"declare_and_compute_period", "declare_sum", "declare_comparison"}
FinishingOps == {"compute_comparisons", "compute_sums"}

DeclareOpOf(source) ==
    CASE source \in {SRC_ACTUALS, SRC_ACTUALS_ALT} -> "declare_and_compute_period"
      [] source = SRC_SUMCOL -> "declare_sum"
      [] source = SRC_CMPCOL -> "declare_comparison"

OwnPeriods == {i \in DOMAIN periods : periods[i].report_instance_id = Self}

\* C1: in a run of compute() that completes, every Period of the instance is
\* declared exactly once, by the declare call of its source, in the order of
\* the periods (sequence, then id); then compute_comparisons() is called once,
\* then compute_sums() once; and at no time does a declare call follow a
\* finishing operation.
C1_DeclareThenComparisonsThenSums ==
    /\ \A i, j \in DOMAIN calls :
          i < j /\ calls[i].op \in FinishingOps => calls[j].op \in FinishingOps
    /\ pc = "done" =>
          LET n == Cardinality(OwnPeriods) IN
          /\ Len(calls) = n + 2
          /\ {calls[i].col : i \in 1..n} = OwnPeriods
          /\ \A i \in 1..n : calls[i].op = DeclareOpOf(periods[calls[i].col].source)
          /\ \A i, j \in 1..n :
                i < j => \/ periods[calls[i].col].sequence < periods[calls[j].col].sequence
                         \/ /\ periods[calls[i].col].sequence = periods[calls[j].col].sequence
                            /\ calls[i].col < calls[j].col
          /\ calls[n + 1].op = "compute_comparisons"
          /\ calls[n + 2].op = "compute_sums"

\* A completed run over two columns of different sources, the second by id
\* declared first because of its sequence.
C1_Witness ==
    /\ pc = "done"
    /\ Len(calls) >= 4
    /\ calls[1].col > calls[2].col
    /\ calls[1].op # calls[2].op

\* C2: when compute() has completed (on a configuration in which no comparison
\* refers to itself), no derived column (sum or comparison) got its values
\* while a column it references, declared in the same matrix, had none yet.
C2_DependenciesComputedFirst ==
    /\ pc = "done"
    /\ \A i \in OwnPeriods : i \notin periods[i].source_cmpcol_from_id
                                    \cup periods[i].source_cmpcol_to_id
    => kpi_matrix.unready = {}

\* C3: when compute_comparisons() and compute_sums() run, every column a
\* declared sum or a declared comparison references has been declared in the
\* matrix.
C3_ReferencesDeclared ==
    (pc = "loop" /\ todo = <<>>) \/ pc = "sums" =>
        \A t \in kpi_matrix.comparison_todo \cup kpi_matrix.sum_todo :
            t.refs \subseteq Range(kpi_matrix.cols)

\* C4: when the loop reaches an Actuals or ActualsAlternate column whose
\* date_from or date_to is unresolved, the next step raises a UserError naming
\* that column and declares nothing; once raised, nothing is returned, no
\* finishing operation has been or will be called, and no later column is
\* declared.
C4_MissingDatesAbort ==
    /\ [](pc = "raised" =>
            /\ raised.kind = "UserError"
            /\ todo # <<>> /\ raised.column = Head(todo)
            /\ periods[raised.column].source \in {SRC_ACTUALS, SRC_ACTUALS_ALT}
            /\ \/ periods[raised.column].date_from = NoDate
               \/ periods[raised.column].date_to = NoDate
            /\ result = NoResult
            /\ \A i \in DOMAIN calls : /\ calls[i].op \in DeclareOps
                                       /\ calls[i].col \notin Range(todo))
    /\ [][(/\ pc = "loop" /\ todo # <<>>
           /\ periods[Head(todo)].source \in {SRC_ACTUALS, SRC_ACTUALS_ALT}
           /\ \/ periods[Head(todo)].date_from = NoDate
              \/ periods[Head(todo)].date_to = NoDate)
          => /\ pc' = "raised"
             /\ raised' = UserError("Column with actuals source must have from/to dates",
                                    Head(todo))
             /\ calls' = calls
             /\ result' = NoResult]_vars
    /\ [][pc = "raised" => pc' = "raised" /\ calls' = calls /\ result' = result]_vars

\* The second of two columns is an Actuals column with date_from resolved and
\* date_to missing; the first was declared before the error was raised.
C4_Witness ==
    /\ pc = "raised"
    /\ calls # <<>>
    /\ periods[raised.column].source = SRC_ACTUALS
    /\ periods[raised.column].date_from # NoDate
    /\ periods[raised.column].date_to = NoDate

----------------------------------------------------------------------------
(* create() and write() on mis.report.instance.period                      *)

PeriodFields == {"report_instance_id", "source", "mode",
                 "source_cmpcol_from_id", "source_cmpcol_to_id"}

\* The values a create or write gives: `keys` are the fields named in vals.
PeriodVals(keys) ==
    {v \in [report_instance_id : InstanceIds, source : Sources, mode : Modes,
            source_cmpcol_from_id : References, source_cmpcol_to_id : References] :
        /\ "report_instance_id" \notin keys => v.report_instance_id = Self
        /\ "source" \notin keys => v.source = SRC_ACTUALS
        /\ "mode" \notin keys => v.mode = MODE_FIX
        /\ "source_cmpcol_from_id" \notin keys => v.source_cmpcol_from_id = NoRecord
        /\ "source_cmpcol_to_id" \notin keys => v.source_cmpcol_to_id = NoRecord}

Written(rec, keys, v) ==
    [rec EXCEPT
        !.report_instance_id = IF "report_instance_id" \in keys
                               THEN v.report_instance_id ELSE @,
        !.source = IF "source" \in keys THEN v.source ELSE @,
        !.mode = IF "mode" \in keys THEN v.mode ELSE @,
        !.source_cmpcol_from_id = IF "source_cmpcol_from_id" \in keys
                                  THEN v.source_cmpcol_from_id ELSE @,
        !.source_cmpcol_to_id = IF "source_cmpcol_to_id" \in keys
                                THEN v.source_cmpcol_to_id ELSE @]

\* The fields of each @api.constrains decorator (lines 275 and 288).
ModeSourceFields == {"mode", "source"}
SourceCmpcolFields == {"source", "source_cmpcol_from_id", "source_cmpcol_to_id"}

\* _validate_fields: the constraint methods whose fields were written run in
\* the order of their names, on the written record; the first to raise ends it.
NotRun == [kind |-> "not run", msg |-> "", column |-> 0]

ValidatePeriod(id, keys, table) ==
    LET ms == IF keys \cap ModeSourceFields # {}
              THEN _check_mode_source(id, table) ELSE NotRun
        sc == IF ms.kind = "ValidationError" \/ keys \cap SourceCmpcolFields = {}
              THEN NotRun ELSE _check_source_cmpcol(id, table)
    IN [_check_mode_source |-> ms, _check_source_cmpcol |-> sc]

FirstError(cs) ==
    IF cs._check_mode_source.kind = "ValidationError" THEN cs._check_mode_source
    ELSE IF cs._check_source_cmpcol.kind = "ValidationError" THEN cs._check_source_cmpcol
    ELSE NoError

\* The operation keeps its effect unless a constraint raised (rollback).
Commit(op, table, cs) ==
    /\ lastOp' = op
    /\ checks' = cs
    /\ raised' = FirstError(cs)
    /\ periods' = IF FirstError(cs) = NoError THEN table ELSE periods
    /\ UNCHANGED <<sums, pc, todo, calls, kpi_matrix, result, dateVars, instanceVars>>

\* period.write(vals)
WritePeriod ==
    /\ lastOp.op = "none"
    /\ \E id \in DOMAIN periods, keys \in SUBSET PeriodFields \ {{}} :
        \E v \in PeriodVals(keys) :
            LET after == Written(periods[id], keys, v)
                table == [periods EXCEPT ![id] = after]
            IN /\ \A r \in v.source_cmpcol_from_id \cup v.source_cmpcol_to_id :
                     r \in DOMAIN periods
               /\ Commit([op |-> "write", id |-> id, keys |-> keys, after |-> after],
                         table, ValidatePeriod(id, keys, table))

\* create(vals): the record gets the next id; the fields not in vals get their
\* defaults; every constraint method runs.
CreatePeriod ==
    /\ lastOp.op = "none"
    /\ Cardinality(DOMAIN periods) < MaxPeriods
    /\ \E keys \in SUBSET PeriodFields :
        \E v \in PeriodVals(keys) :
            LET id == Cardinality(DOMAIN periods) + 1
                after == Written(DefaultPeriod(Self), keys, v)
                table == [i \in DOMAIN periods \cup {id} |->
                             IF i = id THEN after ELSE periods[i]]
            IN /\ "report_instance_id" \in keys
               /\ \A r \in v.source_cmpcol_from_id \cup v.source_cmpcol_to_id :
                     r \in DOMAIN periods
               /\ Commit([op |-> "create", id |-> id, keys |-> keys, after |-> after],
                         table, ValidatePeriod(id, PeriodFields, table))

\* The tables before the operation: periods with their defaults, in any
\* instance, one of which may not exist yet.
InitConfig ==
    /\ \E n \in {MaxPeriods - 1, MaxPeriods} :
          periods \in [1..n -> {DefaultPeriod(i) : i \in InstanceIds}]
    /\ sums = {}
    /\ raised = NoError
    /\ ComputeIdle
    /\ EditIdle
    /\ DatesIdle
    /\ InstanceIdle

NextConfig == WritePeriod \/ CreatePeriod

SpecConfig == InitConfig /\ [][NextConfig]_vars

----------------------------------------------------------------------------
(* Claims about the validation of a CompareColumns Period *)

\* The last operation ran _check_source_cmpcol on a CompareColumns Period.
CmpcolValidated ==
    /\ lastOp.op \in {"write", "create"}
    /\ lastOp.op = "create" \/ lastOp.keys \cap SourceCmpcolFields # {}
    /\ lastOp.after.source = SRC_CMPCOL

\* The instance of a referenced Period, as the operation left it.
InstanceOfRef(r) ==
    IF r = lastOp.id THEN lastOp.after.report_instance_id
    ELSE periods[r].report_instance_id

CmpcolRefs == lastOp.after.source_cmpcol_from_id \cup lastOp.after.source_cmpcol_to_id

BothPresent ==
    /\ lastOp.after.source_cmpcol_from_id # NoRecord
    /\ lastOp.after.source_cmpcol_to_id # NoRecord

SameInstance == \A r \in CmpcolRefs : InstanceOfRef(r) = lastOp.after.report_instance_id

\* C5: validating a CompareColumns Period whose from or to reference is the
\* Period itself, both references present and in the Period's own instance,
\* raises a ValidationError.
C5_SelfComparisonRejected ==
    CmpcolValidated /\ BothPresent /\ SameInstance /\ lastOp.id \in CmpcolRefs
    => raised.kind = "ValidationError"

\* C6: validating a CompareColumns Period raises a ValidationError when its
\* from or its to reference is missing, or when a referenced Period belongs to
\* another instance than the Period; when both references are present, differ
\* from the Period and belong to its instance, _check_source_cmpcol raises
\* nothing, and (the mode being the one the source requires) the operation is
\* accepted and the table holds the record as written.
C6_CmpcolValidation ==
    CmpcolValidated =>
        /\ ~BothPresent \/ ~SameInstance => raised.kind = "ValidationError"
        /\ BothPresent /\ SameInstance /\ lastOp.id \notin CmpcolRefs =>
              /\ checks._check_source_cmpcol.kind # "ValidationError"
              /\ lastOp.after.mode = MODE_NONE =>
                    /\ raised = NoError
                    /\ lastOp.id \in DOMAIN periods
                    /\ periods[lastOp.id] = lastOp.after

\* A write that makes a Period compare two columns one of which belongs to
\* another instance was rejected by _check_source_cmpcol.
C6_Witness ==
    /\ CmpcolValidated /\ BothPresent /\ ~SameInstance
    /\ lastOp.op = "write"
    /\ checks._check_source_cmpcol.msg = "Columns to compare must belong to the same report"
    /\ raised = checks._check_source_cmpcol

----------------------------------------------------------------------------
(* create(), write() and unlink() on mis.report.instance.period.sum        *)

SumFields == {"period_id", "period_to_sum_id", "sign"}
\* The fields of the @api.constrains decorator of line 49.
PeriodToSumFields == {"period_id", "period_to_sum_id"}

SumVals(keys) ==
    {v \in [period_id : PeriodIds, period_to_sum_id : PeriodIds, sign : Signs] :
        /\ "period_id" \notin keys => v.period_id = 1
        /\ "period_to_sum_id" \notin keys => v.period_to_sum_id = 1
        /\ "sign" \notin keys => v.sign = "+"}

SumWritten(e, keys, v) ==
    [e EXCEPT !.period_id = IF "period_id" \in keys THEN v.period_id ELSE @,
              !.period_to_sum_id = IF "period_to_sum_id" \in keys
                                   THEN v.period_to_sum_id ELSE @,
              !.sign = IF "sign" \in keys THEN v.sign ELSE @]

ValidateSum(e, keys) ==
    IF keys \cap PeriodToSumFields # {} THEN _check_period_to_sum(e) ELSE NotRun

CommitSum(op, table, c) ==
    /\ lastOp' = op
    /\ checks' = [_check_period_to_sum |-> c]
    /\ raised' = IF c.kind = "ValidationError" THEN c ELSE NoError
    /\ sums' = IF c.kind = "ValidationError" THEN sums ELSE table
    /\ UNCHANGED <<periods, pc, todo, calls, kpi_matrix, result, dateVars, instanceVars>>

\* create(vals): period_id and period_to_sum_id are required; sign defaults
\* to '+' (lines 30-47).
CreateSum ==
    \E keys \in SUBSET SumFields :
        \E v \in SumVals(keys) :
            LET id == CHOOSE i \in 1..(MaxSumRows + 1) : i \notin {e.id : e \in sums}
                after == [id |-> id, period_id |-> v.period_id,
                          period_to_sum_id |-> v.period_to_sum_id, sign |-> v.sign]
            IN /\ Cardinality(sums) < MaxSumRows
               /\ PeriodToSumFields \subseteq keys
               /\ CommitSum([op |-> "create_sum", id |-> id, keys |-> keys,
                             before |-> after, after |-> after],
                            sums \cup {after}, ValidateSum(after, SumFields))

\* entry.write(vals)
WriteSum ==
    \E e \in sums, keys \in SUBSET SumFields \ {{}} :
        \E v \in SumVals(keys) :
            LET after == SumWritten(e, keys, v) IN
            CommitSum([op |-> "write_sum", id |-> e.id, keys |-> keys,
                       before |-> e, after |-> after],
                      (sums \ {e}) \cup {after}, ValidateSum(after, keys))

\* entry.unlink()
UnlinkSum ==
    \E e \in sums :
        CommitSum([op |-> "unlink_sum", id |-> e.id, keys |-> {},
                   before |-> e, after |-> e],
                  sums \ {e}, NotRun)

InitSums ==
    /\ periods = [i \in PeriodIds |-> DefaultPeriod(Self)]
    /\ sums = {}
    /\ raised = NoError
    /\ ComputeIdle
    /\ EditIdle
    /\ DatesIdle
    /\ InstanceIdle

NextSums == CreateSum \/ WriteSum \/ UnlinkSum

SpecSums == InitSums /\ [][NextSums]_vars

\* C7: no sum entry of the table sums a Period with itself, and a create or
\* write of a sum entry whose column to sum is its parent column raised a
\* ValidationError.
C7_NoSelfSum ==
    /\ \A e \in sums : e.period_id # e.period_to_sum_id
    /\ /\ lastOp.op \in {"create_sum", "write_sum"}
       /\ lastOp.after.period_id = lastOp.after.period_to_sum_id
       => raised.kind = "ValidationError"

\* An entry of the table was edited so as to sum its own column: rejected,
\* and the entry is as it was.
C7_Witness ==
    /\ lastOp.op = "write_sum"
    /\ lastOp.after.period_id = lastOp.after.period_to_sum_id
    /\ raised.kind = "ValidationError"
    /\ \E e \in sums : e.id = lastOp.id /\ e.period_id # e.period_to_sum_id

----------------------------------------------------------------------------
(* Dates: datetime.date as its proleptic Gregorian ordinal, and the        *)
(* 'YYYY-MM-DD' strings of the Date fields as <<year, month, day>>.        *)

IsLeap(y) == y % 4 = 0 /\ (y % 100 # 0 \/ y % 400 = 0)

DaysInMonth(y, m) ==
    IF m = 2 THEN (IF IsLeap(y) THEN 29 ELSE 28)
    ELSE IF m \in {4, 6, 9, 11} THEN 30 ELSE 31

DaysBeforeYear(y) ==
    (y - 1) * 365 + (y - 1) \div 4 - (y - 1) \div 100 + (y - 1) \div 400

RECURSIVE DaysBeforeMonth(_, _)
DaysBeforeMonth(y, m) ==
    IF m = 1 THEN 0 ELSE DaysBeforeMonth(y, m - 1) + DaysInMonth(y, m - 1)

\* fields.Date.from_string: the date of a 'YYYY-MM-DD' string
DateFromString(str) ==
    DaysBeforeYear(str[1]) + DaysBeforeMonth(str[1], str[2]) + str[3]

\* fields.Date.to_string: the 'YYYY-MM-DD' string of a date
DateToString(ord) ==
    LET n0 == ord - 1
        n400 == n0 \div 146097
        r400 == n0 % 146097
        n100 == r400 \div 36524
        r100 == r400 % 36524
        n4 == r100 \div 1461
        r4 == r100 % 1461
        n1 == r4 \div 365
        n == r4 % 365
        year == n400 * 400 + 1 + n100 * 100 + n4 * 4 + n1
    IN IF n1 = 4 \/ n100 = 4 THEN <<year - 1, 12, 31>>
       ELSE LET month == CHOOSE m \in 1..12 :
                            /\ DaysBeforeMonth(year, m) <= n
                            /\ n < DaysBeforeMonth(year, m) + DaysInMonth(year, m)
            IN <<year, month, n - DaysBeforeMonth(year, month) + 1>>

\* date.weekday(): Monday is 0
Weekday(ord) == (ord + 6) % 7

\* date.isoweekday(): Monday is 1
IsoWeekday(ord) == Weekday(ord) + 1

----------------------------------------------------------------------------
(* MisReportInstancePeriod._compute_dates, lines 65-127 *)

\* type is not a required field: False when unset (lines 138-142)
NoType == "False"
PeriodTypes == {"d", "w", "date_range", NoType}

\* MisReportInstance._compute_pivot_date, lines 390-396
pivot_date(rep, ctx_today) == IF DateSet(rep.date) THEN rep.date ELSE ctx_today

\* MisReportInstance._compute_comparison_mode, lines 527-532; the period being
\* resolved is one of instance.period_ids
comparison_mode(rep) == rep.has_periods /\ ~DateSet(rep.date_from)

Resolved(date_from, date_to, valid) ==
    [date_from |-> date_from, date_to |-> date_to, valid |-> valid]

\* lines 73-75
Unresolved == Resolved(NoDate, NoDate, FALSE)

\* lines 79-81
FixedRangeBranchFromOnly(rep) ==
    Resolved(rep.date_from, rep.date_to, DateSet(rep.date_from))

FixedRangeBranch(rep) ==
    Resolved(rep.date_from, rep.date_to, DateSet(rep.date_from) /\ DateSet(rep.date_to))

\* lines 83-85
NoDateFilterBranchInvalid == Resolved(NoDate, NoDate, FALSE)

NoDateFilterBranch == Resolved(NoDate, NoDate, TRUE)

\* lines 87-89
ManualBranch(rec) ==
    Resolved(rec.manual_date_from, rec.manual_date_to,
             DateSet(rec.manual_date_from) /\ DateSet(rec.manual_date_to))

\* lines 91-96
DayBranchInclusive(d, rec) ==
    LET date_from == d + rec.offset
        date_to == date_from + rec.duration
    IN Resolved(DateToString(date_from), DateToString(date_to), TRUE)

DayBranch(d, rec) ==
    LET date_from == d + rec.offset
        date_to == date_from + (rec.duration - 1)
    IN Resolved(DateToString(date_from), DateToString(date_to), TRUE)

\* lines 98-105
WeekBranchIso(d, rec) ==
    LET monday == d - IsoWeekday(d)
        date_from == monday + rec.offset * 7
        date_to == date_from + (7 * rec.duration - 1)
    IN Resolved(DateToString(date_from), DateToString(date_to), TRUE)

WeekBranch(d, rec) ==
    LET monday == d - Weekday(d)
        date_from == monday + rec.offset * 7
        date_to == date_from + (7 * rec.duration - 1)
    IN Resolved(DateToString(date_from), DateToString(date_to), TRUE)

\* date_range_obj.search(..., order='date_start'): the ranges as a list
OrderedRanges(ranges) ==
    CHOOSE s \in [1..Cardinality(ranges) -> ranges] :
        \A i, j \in DOMAIN s :
            i < j => DateFromString(s[i].date_start) < DateFromString(s[j].date_start)

\* lines 107-127
DateRangeBranchStrictEnd(d, rec, ranges) ==
    LET all_periods == OrderedRanges(ranges)
        current_periods == {i \in DOMAIN all_periods :
                               /\ DateFromString(all_periods[i].date_start) <= d
                               /\ DateFromString(all_periods[i].date_end) >= d}
    IN IF current_periods = {} THEN Unresolved
       ELSE LET first == CHOOSE i \in current_periods : \A j \in current_periods : i <= j
                p == (first - 1) + rec.offset
            IN IF p >= 0 /\ p + rec.duration < Len(all_periods)
               THEN Resolved(all_periods[p + 1].date_start,
                             all_periods[p + rec.duration].date_end, TRUE)
               ELSE Unresolved

DateRangeBranch(d, rec, ranges) ==
    LET all_periods == OrderedRanges(ranges)
        current_periods == {i \in DOMAIN all_periods :
                               /\ DateFromString(all_periods[i].date_start) <= d
                               /\ DateFromString(all_periods[i].date_end) >= d}
    IN IF current_periods = {} THEN Unresolved
       ELSE LET first == CHOOSE i \in current_periods : \A j \in current_periods : i <= j
                \* list.index() counts from 0
                p == (first - 1) + rec.offset
            IN IF p >= 0 /\ p + rec.duration <= Len(all_periods)
               THEN Resolved(all_periods[p + 1].date_start,
                             all_periods[p + rec.duration].date_end, TRUE)
               ELSE Unresolved

_compute_dates(rec, rep, ctx_today, ranges) ==
    LET d == DateFromString(pivot_date(rep, ctx_today)) IN
    IF ~comparison_mode(rep) THEN FixedRangeBranch(rep)
    ELSE IF rec.mode = MODE_NONE THEN NoDateFilterBranch
    ELSE IF rec.mode = MODE_FIX THEN ManualBranch(rec)
    ELSE IF rec.type = "d" THEN DayBranch(d, rec)
    ELSE IF rec.type = "w" THEN WeekBranch(d, rec)
    ELSE IF rec.type = "date_range" THEN DateRangeBranch(d, rec, ranges)
    ELSE Unresolved

----------------------------------------------------------------------------
(* SpecDates: one Period of one ReportInstance; every write to a field the *)
(* resolver depends on (@api.depends, lines 65-70) recomputes the dates.   *)

Offsets == (0 - MaxOffset)..MaxOffset
Durations == 1..MaxDuration

BaseDates == {NoDate, <<2024, 3, 15>>, <<2024, 2, 28>>, <<2023, 12, 31>>}
Todays == {<<2024, 3, 11>>, <<2024, 3, 3>>}
ManualFromDates == {NoDate, <<2024, 1, 3>>}
ManualToDates == {NoDate, <<2024, 1, 31>>}
InstanceFromDates == {NoDate, <<2024, 1, 1>>}
InstanceToDates == {NoDate, <<2024, 3, 31>>}

DateRange(date_start, date_end) == [date_start |-> date_start, date_end |-> date_end]

MonthlyRanges ==
    {DateRange(<<2024, 2, 1>>, <<2024, 2, 29>>),
     DateRange(<<2024, 3, 1>>, <<2024, 3, 31>>),
     DateRange(<<2024, 4, 1>>, <<2024, 4, 30>>)}

Catalogs == {{}, MonthlyRanges}

\* field defaults, lines 131-160
NewPeriod ==
    [mode |-> MODE_FIX, type |-> NoType, offset |-> 0 - 1, duration |-> 1,
     manual_date_from |-> NoDate, manual_date_to |-> NoDate,
     date_from |-> NoDate, date_to |-> NoDate, valid |-> FALSE]

Recompute(rec, rep, ctx_today, ranges) ==
    LET r == _compute_dates(rec, rep, ctx_today, ranges)
    IN [rec EXCEPT !.date_from = r.date_from, !.date_to = r.date_to, !.valid = r.valid]

WriteRecord(rec) ==
    /\ record' = Recompute(rec, report, today, date_ranges)
    /\ UNCHANGED <<report, today, date_ranges>>

WriteReport(rep) ==
    /\ report' = rep
    /\ record' = Recompute(record, rep, today, date_ranges)
    /\ UNCHANGED <<today, date_ranges>>

WriteMode ==
    /\ \E v \in Modes : WriteRecord([record EXCEPT !.mode = v])
    /\ UNCHANGED <<periods, sums, computeVars, editVars, instanceVars>>

WriteType ==
    /\ \E v \in PeriodTypes : WriteRecord([record EXCEPT !.type = v])
    /\ UNCHANGED <<periods, sums, computeVars, editVars, instanceVars>>

WriteOffset ==
    /\ \E v \in Offsets : WriteRecord([record EXCEPT !.offset = v])
    /\ UNCHANGED <<periods, sums, computeVars, editVars, instanceVars>>

WriteDuration ==
    /\ \E v \in Durations : WriteRecord([record EXCEPT !.duration = v])
    /\ UNCHANGED <<periods, sums, computeVars, editVars, instanceVars>>

WriteManualDates ==
    /\ \E f \in ManualFromDates, t \in ManualToDates :
           WriteRecord([record EXCEPT !.manual_date_from = f, !.manual_date_to = t])
    /\ UNCHANGED <<periods, sums, computeVars, editVars, instanceVars>>

WriteBaseDate ==
    /\ \E v \in BaseDates : WriteReport([report EXCEPT !.date = v])
    /\ UNCHANGED <<periods, sums, computeVars, editVars, instanceVars>>

WriteInstanceDates ==
    /\ \E f \in InstanceFromDates, t \in InstanceToDates :
           WriteReport([report EXCEPT !.date_from = f, !.date_to = t])
    /\ UNCHANGED <<periods, sums, computeVars, editVars, instanceVars>>

InitDates ==
    /\ today \in Todays
    /\ date_ranges \in Catalogs
    /\ report \in [date : BaseDates, date_from : InstanceFromDates,
                   date_to : InstanceToDates, has_periods : {TRUE}]
    /\ record = Recompute(NewPeriod, report, today, date_ranges)
    /\ periods = <<>>
    /\ sums = {}
    /\ raised = NoError
    /\ ComputeIdle
    /\ EditIdle
    /\ InstanceIdle

NextDates ==
    \/ WriteMode
    \/ WriteType
    \/ WriteOffset
    \/ WriteDuration
    \/ WriteManualDates
    \/ WriteBaseDate
    \/ WriteInstanceDates

SpecDates == InitDates /\ [][NextDates]_vars

----------------------------------------------------------------------------
(* Claims about the Period Date Resolver *)

IsCalendarDate(str) ==
    /\ DateSet(str)
    /\ str[2] \in 1..12
    /\ str[3] \in 1..DaysInMonth(str[1], str[2])

\* the days from a to b, counted by walking the calendar one day at a time
RECURSIVE NextDays(_, _)
NextDays(str, n) ==
    IF n = 0 THEN str
    ELSE LET next == IF str[3] < DaysInMonth(str[1], str[2])
                         THEN <<str[1], str[2], str[3] + 1>>
                     ELSE IF str[2] < 12 THEN <<str[1], str[2] + 1, 1>>
                     ELSE <<str[1] + 1, 1, 1>>
         IN NextDays(next, n - 1)

RECURSIVE PrevDays(_, _)
PrevDays(str, n) ==
    IF n = 0 THEN str
    ELSE LET prev == IF str[3] > 1 THEN <<str[1], str[2], str[3] - 1>>
                     ELSE IF str[2] > 1
                         THEN <<str[1], str[2] - 1, DaysInMonth(str[1], str[2] - 1)>>
                     ELSE <<str[1] - 1, 12, 31>>
         IN PrevDays(prev, n - 1)

AddDays(str, n) == IF n >= 0 THEN NextDays(str, n) ELSE PrevDays(str, 0 - n)

\* C8 (as amended): in an instance that is in comparison mode, a Period with
\* mode = NoDateFilter resolves to valid = true with date_from and date_to
\* both absent, whatever its type, offset and duration.
C8_NoDateFilterInComparisonMode ==
    (comparison_mode(report) /\ record.mode = MODE_NONE)
        => (record.valid /\ ~DateSet(record.date_from) /\ ~DateSet(record.date_to))

\* C8 (as stated): a Period with mode = NoDateFilter resolves to valid = true
\* with both dates absent, whatever the state of its owning ReportInstance.
C8_NoDateFilterAnyInstance ==
    record.mode = MODE_NONE
        => (record.valid /\ ~DateSet(record.date_from) /\ ~DateSet(record.date_to))

C8_Witness ==
    /\ comparison_mode(report)
    /\ record.mode = MODE_NONE
    /\ record.type = "w"
    /\ record.offset = MaxOffset
    /\ record.duration = MaxDuration
    /\ DateSet(report.date_to)
    /\ record.valid
    /\ record.date_from = NoDate
    /\ record.date_to = NoDate

DayWindow ==
    /\ IsCalendarDate(record.date_from)
    /\ IsCalendarDate(record.date_to)
    /\ record.date_from = AddDays(pivot_date(report, today), record.offset)
    /\ record.date_to = AddDays(record.date_from, record.duration - 1)
    /\ DateFromString(record.date_to) - DateFromString(record.date_from) + 1
           = record.duration
    /\ record.valid
    /\ (/\ pivot_date(report, today) = <<2024, 3, 15>>
        /\ record.offset = 0 - 1
        /\ record.duration = 1)
           => (record.date_from = <<2024, 3, 14>> /\ record.date_to = <<2024, 3, 14>>)

\* C9 (as amended): in an instance that is in comparison mode, a Period with
\* mode = RelativeToBase and type = Day resolves to date_from = pivot + offset
\* days and date_to - date_from + 1 = duration days, with valid = true; pivot
\* 2024-03-15, offset -1, duration 1 gives date_from = date_to = 2024-03-14.
C9_DayWindowInComparisonMode ==
    (comparison_mode(report) /\ record.mode = MODE_REL /\ record.type = "d")
        => DayWindow

\* C9 (as stated): every Period with mode = RelativeToBase and type = Day
\* resolves to date_from = pivot + offset days and date_to - date_from + 1 =
\* duration days, with valid = true.
C9_DayWindowAnyInstance ==
    (record.mode = MODE_REL /\ record.type = "d") => DayWindow

C9_Witness ==
    /\ comparison_mode(report)
    /\ record.mode = MODE_REL
    /\ record.type = "d"
    /\ report.date = <<2024, 3, 15>>
    /\ record.offset = 0 - 1
    /\ record.duration = 1
    /\ record.date_from = <<2024, 3, 14>>
    /\ record.date_to = <<2024, 3, 14>>
    /\ record.valid

StartsOnMonday ==
    /\ IsCalendarDate(record.date_from)
    /\ Weekday(DateFromString(record.date_from)) = 0
    /\ \E back \in 0..6 :
           record.date_from
               = AddDays(pivot_date(report, today), 7 * record.offset - back)
    /\ (/\ pivot_date(report, today) = <<2024, 3, 15>>
        /\ record.offset = 0
        /\ record.duration = 1)
           => (record.date_from = <<2024, 3, 11>> /\ record.date_to = <<2024, 3, 17>>)

\* C10 (as amended): in an instance that is in comparison mode, a Period with
\* mode = RelativeToBase and type = Week resolves to a date_from that falls on
\* a Monday, whatever its pivot date, offset and duration; pivot Friday
\* 2024-03-15, offset 0, duration 1 gives 2024-03-11 to 2024-03-17.
C10_WeekStartsOnMondayWhenRelative ==
    (comparison_mode(report) /\ record.mode = MODE_REL /\ record.type = "w")
        => StartsOnMonday

\* C10 (as stated): every Period with type = Week, whatever its mode, resolves
\* to a date_from that falls on a Monday.
C10_WeekStartsOnMondayAnyMode ==
    record.type = "w" => StartsOnMonday

C10_Witness ==
    /\ comparison_mode(report)
    /\ record.mode = MODE_REL
    /\ record.type = "w"
    /\ report.date = <<2024, 3, 15>>
    /\ record.offset = 0
    /\ record.duration = 1
    /\ record.date_from = <<2024, 3, 11>>
    /\ record.date_to = <<2024, 3, 17>>
    /\ record.valid

\* a 'YYYY-MM-DD' string sorts before another
DateBefore(a, b) ==
    \/ a[1] < b[1]
    \/ a[1] = b[1] /\ a[2] < b[2]
    \/ a[1] = b[1] /\ a[2] = b[2] /\ a[3] < b[3]

\* position, from 0, of a catalog entry in start-date order
PositionOf(r) == Cardinality({q \in date_ranges : DateBefore(q.date_start, r.date_start)})

PivotEntries ==
    {r \in date_ranges :
        /\ ~DateBefore(pivot_date(report, today), r.date_start)
        /\ ~DateBefore(r.date_end, pivot_date(report, today))}

WindowFits(r) ==
    /\ 0 <= PositionOf(r) + record.offset
    /\ PositionOf(r) + record.offset + record.duration <= Cardinality(date_ranges)

CatalogWindow ==
    IF \E r \in PivotEntries : WindowFits(r)
    THEN \E r \in PivotEntries, a \in date_ranges, b \in date_ranges :
            /\ PositionOf(a) = PositionOf(r) + record.offset
            /\ PositionOf(b) = PositionOf(r) + record.offset + record.duration - 1
            /\ record.date_from = a.date_start
            /\ record.date_to = b.date_end
            /\ record.valid
    ELSE /\ record.date_from = NoDate
         /\ record.date_to = NoDate
         /\ ~record.valid

\* C11: in a comparison-mode instance, a RelativeToBase Period of type
\* DateRangeCatalog whose pivot lies in catalog entry i (of N, in start-date
\* order) resolves to the start of entry i+offset and the end of entry
\* i+offset+duration-1 with valid = true when 0 <= i+offset and
\* i+offset+duration <= N; when no entry holds the pivot or the window leaves
\* the catalog, date_from and date_to stay unset and valid = false.
C11_CatalogWindow ==
    (comparison_mode(report) /\ record.mode = MODE_REL /\ record.type = "date_range")
        => CatalogWindow

C11_Witness ==
    /\ comparison_mode(report)
    /\ record.mode = MODE_REL
    /\ record.type = "date_range"
    /\ date_ranges = MonthlyRanges
    /\ report.date = <<2024, 3, 15>>
    /\ record.offset = 0 - 1
    /\ record.duration = 2
    /\ record.date_from = <<2024, 2, 1>>
    /\ record.date_to = <<2024, 3, 31>>
    /\ record.valid

\* C12: the resolver tests the instance's mode first: when the owning
\* instance is not in comparison mode, the Period gets the instance's fixed
\* date_from and date_to whatever its own mode, type, offset and duration,
\* and valid is true exactly when both of those dates are present.
C12_FixedRangeFirst ==
    ~comparison_mode(report)
        => /\ record.date_from = report.date_from
           /\ record.date_to = report.date_to
           /\ record.valid = (report.date_from # NoDate /\ report.date_to # NoDate)

C12_Witness ==
    /\ ~comparison_mode(report)
    /\ record.mode = MODE_REL
    /\ record.type = "w"
    /\ record.offset = 1
    /\ record.duration = MaxDuration
    /\ report.date_to = NoDate
    /\ record.date_from = <<2024, 1, 1>>
    /\ record.date_to = NoDate
    /\ ~record.valid

----------------------------------------------------------------------------
(* SpecDrill: compute() on an instance, then one drilldown() call,         *)
(* lines 772-804                                                           *)

\* expressions a cell can carry: one reading accounts, one of constants only
AccountExprs == {"balp[70%]"}
ConstantExprs == {"42"}
NoExpr == ""
NoPeriodId == 0
NoAccountId == 0
AccountIds == {7}

DrillArgs ==
    [period_id : {NoPeriodId} \cup DOMAIN periods,
     expr : {NoExpr} \cup AccountExprs \cup ConstantExprs,
     account_id : {NoAccountId} \cup AccountIds]

\* AEP.has_account_var(expr)
has_account_var(expr) == expr \in AccountExprs

\* aep.get_aml_domain_for_expr(expr, date_from, date_to, target_move, account_id):
\* the move-line domain of the expression over the dates and the target moves
get_aml_domain_for_expr(expr, date_from, date_to, target_move, account_id) ==
    <<[leaf |-> "expr", expr |-> expr, date_from |-> date_from, date_to |-> date_to,
       target_move |-> target_move, account_id |-> account_id]>>

\* line 778
DrillableAnyExpr(arg) == arg.period_id # NoPeriodId /\ arg.expr # NoExpr

Drillable(arg) ==
    arg.period_id # NoPeriodId /\ arg.expr # NoExpr /\ has_account_var(arg.expr)

\* line 786
drilldown_target_move_any_source(self, period) == instances[self].target_move

drilldown_target_move(self, period) ==
    IF period.source = SRC_ACTUALS THEN instances[self].target_move ELSE None

\* lines 789-792
aml_model_name(period) ==
    IF period.source = SRC_ACTUALS_ALT
    THEN ModelName(period.source_aml_model_id)
    ELSE "account.move.line"

\* lines 779-802
Descriptor(self, arg) ==
    LET period == periods[arg.period_id]
        domain == get_aml_domain_for_expr(arg.expr, period.date_from, period.date_to,
                                          drilldown_target_move(self, period),
                                          arg.account_id)
    IN [name |-> <<arg.expr, arg.period_id>>,
        domain |-> domain \o _get_additional_move_line_filter(period),
        res_model |-> aml_model_name(period)]

Drilldown ==
    /\ pc \in {"done", "raised"}
    /\ ~drill.called
    /\ \E self \in InstanceIds, arg \in DrillArgs :
          IF Drillable(arg)
          THEN /\ drill' = [called |-> TRUE, self |-> self, arg |-> arg,
                            returns |-> "descriptor",
                            descriptor |-> Descriptor(self, arg)]
               /\ aep' = <<"parse_expr", "done_parsing", "get_aml_domain_for_expr">>
          ELSE /\ drill' = [called |-> TRUE, self |-> self, arg |-> arg,
                            returns |-> "False", descriptor |-> NoDescriptor]
               /\ aep' = <<>>
    /\ UNCHANGED <<periods, sums, computeVars, editVars, dateVars, instances, params>>

AmlModels == {NoRecord, {"x.move.line.view"}}
MoveLineFilters == {<<>>, <<[leaf |-> "analytic_account_id = 3"]>>}

\* Columns of the computed instance: raw columns with their source model and
\* filter extension, one comparison and one sum.
DrillColumns ==
    {[DefaultPeriod(Self) EXCEPT !.source = SRC_ACTUALS, !.date_from = f,
                                 !.date_to = <<2024, 1, 31>>,
                                 !.additional_move_line_filter = x] :
        f \in {NoDate, <<2024, 1, 1>>}, x \in MoveLineFilters}
    \cup
    {[DefaultPeriod(Self) EXCEPT !.source = SRC_ACTUALS_ALT,
                                 !.date_from = <<2024, 1, 1>>,
                                 !.date_to = <<2024, 1, 31>>,
                                 !.source_aml_model_id = a,
                                 !.additional_move_line_filter = x] :
        a \in AmlModels, x \in MoveLineFilters}
    \cup
    {[DefaultPeriod(Self) EXCEPT !.source = SRC_CMPCOL, !.mode = MODE_NONE,
                                 !.source_cmpcol_from_id = {1},
                                 !.source_cmpcol_to_id = {1}],
     [DefaultPeriod(Self) EXCEPT !.source = SRC_SUMCOL, !.mode = MODE_NONE]}

InitDrill ==
    /\ periods \in [PeriodIds -> DrillColumns \cup OtherColumns]
    /\ sums = {}
    /\ Accepted(periods, sums)
    /\ instances \in [InstanceIds -> [target_move : TargetMoves]]
    /\ params = <<>>
    /\ drill = NoDrill
    /\ aep = <<>>
    /\ pc = "param_vals"
    /\ todo = <<>>
    /\ calls = <<>>
    /\ kpi_matrix = prepare_kpi_matrix
    /\ raised = NoError
    /\ result = NoResult
    /\ EditIdle
    /\ DatesIdle

NextDrill ==
    \/ ParamVals
    \/ Prepare
    \/ AddColumnActuals
    \/ AddColumnActualsAlt
    \/ AddColumnSumcol
    \/ AddColumnCmpcol
    \/ ComputeComparisons
    \/ ComputeSums
    \/ Return
    \/ Drilldown

SpecDrill == InitDrill /\ [][NextDrill]_vars

\* the selection the Column Builder used for column `id`, if it built one
BuiltSelections(id) ==
    {calls[i].args : i \in {j \in DOMAIN calls :
                               /\ calls[j].op = "declare_and_compute_period"
                               /\ calls[j].col = id}}

\* the selection a descriptor carries
DrillSelectionMatches(sel) ==
    /\ Len(drill.descriptor.domain) = 1 + Len(sel.aml_filter)
    /\ drill.descriptor.domain[1].date_from = sel.date_from
    /\ drill.descriptor.domain[1].date_to = sel.date_to
    /\ drill.descriptor.domain[1].target_move = sel.target_move
    /\ SubSeq(drill.descriptor.domain, 2, Len(drill.descriptor.domain)) = sel.aml_filter
    /\ drill.descriptor.res_model = sel.aml_model

C14_NoDrilldownSentinel ==
    (/\ drill.called
     /\ \/ drill.arg.period_id = NoPeriodId
        \/ drill.arg.expr = NoExpr
        \/ drill.arg.expr \in ConstantExprs)
        => /\ drill.returns = "False"
           /\ drill.descriptor = NoDescriptor
           /\ aep = <<>>

C14_Witness ==
    /\ drill.called
    /\ drill.arg.period_id # NoPeriodId
    /\ drill.arg.expr \in ConstantExprs
    /\ periods[drill.arg.period_id].source = SRC_ACTUALS
    /\ BuiltSelections(drill.arg.period_id) # {}
    /\ drill.returns = "False"
    /\ aep = <<>>

----------------------------------------------------------------------------
(* SpecParams: compute() on an instance that has parameter values *)

\* type is related to report_param_id.type (line 328): one of the three types
\* _value knows, or anything else (False when the parameter has none)
KnownParamTypes == {"str", "num", "ref"}

ParamValue(name, type, refs) ==
    [name |-> name, type |-> type, val_str |-> "text", val_num |-> 1,
     val_ref |-> "code", refs |-> refs]

ParamValues ==
    {ParamValue("p_str", "str", <<>>),
     ParamValue("p_num", "num", <<>>),
     ParamValue("p_ref", "ref", <<"record">>),
     ParamValue("p_ref_unmatched", "ref", <<>>),
     ParamValue("p_untyped", False, <<>>)}

ParamColumns ==
    {[DefaultPeriod(Self) EXCEPT !.date_from = <<2024, 1, 1>>,
                                 !.date_to = <<2024, 1, 31>>],
     [DefaultPeriod(Self) EXCEPT !.source = SRC_ACTUALS_ALT,
                                 !.date_from = <<2024, 1, 1>>,
                                 !.date_to = <<2024, 1, 31>>],
     [DefaultPeriod(Self) EXCEPT !.source = SRC_CMPCOL, !.mode = MODE_NONE,
                                 !.source_cmpcol_from_id = {1},
                                 !.source_cmpcol_to_id = {1}],
     [DefaultPeriod(Self) EXCEPT !.source = SRC_SUMCOL, !.mode = MODE_NONE]}

InitParams ==
    /\ periods \in [PeriodIds -> ParamColumns]
    /\ sums = {}
    /\ Accepted(periods, sums)
    /\ instances = [i \in InstanceIds |-> DefaultInstance]
    /\ params \in UNION {[1..n -> ParamValues] : n \in 0..MaxParams}
    /\ drill = NoDrill
    /\ aep = <<>>
    /\ pc = "param_vals"
    /\ todo = <<>>
    /\ calls = <<>>
    /\ kpi_matrix = prepare_kpi_matrix
    /\ raised = NoError
    /\ result = NoResult
    /\ EditIdle
    /\ DatesIdle

NextParams ==
    \/ ParamVals
    \/ Prepare
    \/ AddColumnActuals
    \/ AddColumnActualsAlt
    \/ AddColumnSumcol
    \/ AddColumnCmpcol
    \/ ComputeComparisons
    \/ ComputeSums
    \/ Return

SpecParams == InitParams /\ [][NextParams]_vars

Resolves(pv) ==
    \/ pv.type \in {"str", "num"}
    \/ pv.type = "ref" /\ pv.refs # <<>>

\* the first param value that does not resolve has an unrecognised type
UnsupportedTypeFirst ==
    \E i \in DOMAIN params :
        /\ params[i].type \notin KnownParamTypes
        /\ \A j \in 1..(i - 1) : Resolves(params[j])

\* C15: when resolving the param values meets one whose type is none of
\* string, numeric or reference, compute() fails with the "unsupported
\* parameter type" error of the user-facing kind (UserError), and no column
\* has been declared.
C15_UnsupportedTypeIsUserError ==
    (UnsupportedTypeFirst /\ pc # "param_vals")
        => /\ pc = "raised"
           /\ raised.kind = "UserError"
           /\ raised.msg = "Unsupported parameter type"
           /\ calls = <<>>
           /\ result = NoResult

----------------------------------------------------------------------------
(* SpecSwitch: one instance (report) with its Periods (periods); writes of *)
(* comparison_mode run _inverse_comparison_mode, lines 534-551             *)

\* ids are never reused; the model stops creating Periods at this id
MaxPeriodId == MaxPeriods + 2

NextPeriodId ==
    IF DOMAIN periods = {} THEN 1
    ELSE 1 + (CHOOSE i \in DOMAIN periods : \A j \in DOMAIN periods : j <= i)

\* the attributes of the module bound by `import datetime` (line 5)
DatetimeModule == {"date", "datetime", "time", "timedelta", "tzinfo", "MINYEAR", "MAXYEAR"}

\* lines 543-548: {'name': 'Default', 'type': 'd'} over the field defaults
DefaultPeriodVals == [NewPeriod EXCEPT !.type = "d"]

ConfiguredPeriods ==
    {DefaultPeriodVals,
     [NewPeriod EXCEPT !.mode = MODE_REL, !.type = "w", !.offset = 0]}

ResolveAll(table, rep) ==
    [i \in DOMAIN table |-> Recompute(table[i], rep, today, date_ranges)]

SwitchOp(value) == [op |-> "write_comparison_mode", id |-> 0, keys |-> {}, value |-> value]

\* lines 537-548, with the value written False
SwitchToFixedRange ==
    IF (~DateSet(report.date_from) \/ ~DateSet(report.date_to))
           /\ "now" \notin DatetimeModule
    THEN /\ raised' = AttributeError("now")
         /\ UNCHANGED <<report, periods>>
    ELSE LET rep == [report EXCEPT
                        !.date_from = IF DateSet(@) THEN @ ELSE today,
                        !.date_to = IF DateSet(@) THEN @ ELSE today,
                        !.has_periods = TRUE]
         IN /\ raised' = NoError
            /\ report' = rep
            /\ periods' = ResolveAll([i \in {NextPeriodId} |-> DefaultPeriodVals], rep)

\* lines 549-551, with the value written True
SwitchToComparison ==
    LET rep == [report EXCEPT !.date_from = NoDate, !.date_to = NoDate]
    IN /\ raised' = NoError
       /\ report' = rep
       /\ periods' = ResolveAll(periods, rep)

WriteComparisonMode ==
    /\ NextPeriodId <= MaxPeriodId
    /\ \E value \in BOOLEAN :
          /\ lastOp' = SwitchOp(value)
          /\ IF value THEN SwitchToComparison ELSE SwitchToFixedRange
    /\ UNCHANGED <<sums, pc, todo, calls, kpi_matrix, result, checks, record, today,
                   date_ranges, instanceVars>>

\* write({'date_from': f, 'date_to': t}) on the instance
WriteFixedDates ==
    /\ \E f \in InstanceFromDates, t \in InstanceToDates :
          LET rep == [report EXCEPT !.date_from = f, !.date_to = t]
          IN /\ lastOp' = [op |-> "write", id |-> 0, keys |-> {"date_from", "date_to"},
                           value |-> <<f, t>>]
             /\ report' = rep
             /\ periods' = ResolveAll(periods, rep)
             /\ raised' = NoError
    /\ UNCHANGED <<sums, pc, todo, calls, kpi_matrix, result, checks, record, today,
                   date_ranges, instanceVars>>

InitSwitch ==
    /\ today \in Todays
    /\ date_ranges = {}
    /\ \E n \in 0..MaxPeriods, f \in InstanceFromDates, t \in InstanceToDates :
          \E table \in [1..n -> ConfiguredPeriods] :
              /\ report = [date |-> NoDate, date_from |-> f, date_to |-> t,
                           has_periods |-> n > 0]
              /\ periods = ResolveAll(table, report)
    /\ record = <<>>
    /\ sums = {}
    /\ raised = NoError
    /\ ComputeIdle
    /\ EditIdle
    /\ InstanceIdle

NextSwitch == WriteComparisonMode \/ WriteFixedDates

SpecSwitch == InitSwitch /\ [][NextSwitch]_vars

\* C16: a write of comparison_mode completes from any state; switching to
\* comparison mode leaves the instance's date_from and date_to unset, and
\* switching to single fixed-range mode leaves exactly one Period, the default
\* one, and a fixed date range in force.
C16_SwitchCompletes ==
    lastOp.op = "write_comparison_mode"
        => /\ raised = NoError
           /\ lastOp.value
                  => (report.date_from = NoDate /\ report.date_to = NoDate)
           /\ ~lastOp.value
                  => /\ Cardinality(DOMAIN periods) = 1
                     /\ \A i \in DOMAIN periods :
                           /\ periods[i].mode = MODE_FIX
                           /\ periods[i].type = "d"
                     /\ report.date_from # NoDate
                     /\ report.date_to # NoDate
                     /\ ~comparison_mode(report)

----------------------------------------------------------------------------
(* SpecEdits: one edit of the Periods of an accepted configuration *)

\* psycopg2's IntegrityError, raised when a foreign key refuses a delete
IntegrityError(id) ==
    [kind |-> "IntegrityError", msg |-> "violates foreign key constraint", column |-> id]

\* ondelete of source_cmpcol_from_id / source_cmpcol_to_id (lines 209-216):
\* none is given, and a Many2one then sets the reference to null
SetNull(rs, id) == rs \ {id}

\* period.unlink(): sum entries of the Period go with it (ondelete='cascade',
\* line 33); a sum entry that sums it refuses the delete (ondelete='restrict',
\* line 39); compare references to it are set to null. No constraint method
\* runs on the Periods that referred to it.
UnlinkPeriod ==
    /\ lastOp.op = "none"
    /\ \E id \in DOMAIN periods :
          /\ lastOp' = [op |-> "unlink", id |-> id, keys |-> {}, after |-> periods[id]]
          /\ checks' = [_check_mode_source |-> NotRun, _check_source_cmpcol |-> NotRun]
          /\ IF \E e \in sums : e.period_to_sum_id = id /\ e.period_id # id
             THEN /\ raised' = IntegrityError(id)
                  /\ UNCHANGED <<periods, sums>>
             ELSE /\ raised' = NoError
                  /\ sums' = {e \in sums : e.period_id # id /\ e.period_to_sum_id # id}
                  /\ periods' = [i \in DOMAIN periods \ {id} |->
                                    [periods[i] EXCEPT
                                        !.source_cmpcol_from_id = SetNull(@, id),
                                        !.source_cmpcol_to_id = SetNull(@, id)]]
    /\ UNCHANGED <<pc, todo, calls, kpi_matrix, result, dateVars, instanceVars>>

\* Periods before the edit: raw columns of either instance and comparisons of
\* the first two Periods.
EditColumns ==
    {DefaultPeriod(i) : i \in InstanceIds}
    \cup
    {[DefaultPeriod(i) EXCEPT !.source = SRC_CMPCOL, !.mode = MODE_NONE,
                              !.source_cmpcol_from_id = {1},
                              !.source_cmpcol_to_id = {MaxPeriods - 1}] :
        i \in InstanceIds}

InitEdits ==
    /\ \E n \in {MaxPeriods - 1, MaxPeriods} : periods \in [1..n -> EditColumns]
    /\ sums = {}
    /\ Accepted(periods, sums)
    /\ raised = NoError
    /\ ComputeIdle
    /\ EditIdle
    /\ DatesIdle
    /\ InstanceIdle

NextEdits == WritePeriod \/ CreatePeriod \/ UnlinkPeriod

SpecEdits == InitEdits /\ [][NextEdits]_vars

\* C17: after any accepted edit of the Periods (a write of a Period's source,
\* of its compare references or of its instance, the creation or the deletion
\* of a Period), every Period with source CompareColumns has both its from and
\* its to reference present, and both referenced Periods belong to its own
\* instance.
C17_CmpcolChecksHoldAfterEdits ==
    \A id \in DOMAIN periods :
        periods[id].source = SRC_CMPCOL
            => /\ periods[id].source_cmpcol_from_id # NoRecord
               /\ periods[id].source_cmpcol_to_id # NoRecord
               /\ \A r \in periods[id].source_cmpcol_from_id
                              \cup periods[id].source_cmpcol_to_id :
                     /\ r \in DOMAIN periods
                     /\ periods[r].report_instance_id = periods[id].report_instance_id

====
